---- MODULE Spec2Model ----
(***************************************************************************)
(* Model of the multi-hop ERC-20 transfer tracer (the POST handler of the  *)
(* trace route) of onchain-tracker.  Strings the code transforms           *)
(* (addresses, amounts, bytecode results) are sequences of one-character   *)
(* strings, so that trimming, lower-casing, slicing and decimal shifting   *)
(* are computed as the code computes them.                                 *)
(***************************************************************************)
EXTENDS Integers, Sequences, FiniteSets, TLC

(***************************************************************************)
(* Bounds of the model.                                                    *)
(***************************************************************************)
\* Most transfer items the provider returns, over all the responses of one
\* trace, in the open world.
MaxTransfers == 2
\* Number of counterparties of the start address in the fan world.
FanSize == 27
\* Number of transfers of the start address in the bulk world.
BulkSize == 101
MaxRawLen == 3

(***************************************************************************)
(* Program constants.                                                      *)
(***************************************************************************)
MAX_CLASSIFY == 25
HexLen == 40
MaxDecimals == 36
MinHops == 1
MaxHops == 4
DefaultHops == 2
MinLimit == 10
MaxLimit == 200
DefaultLimit == 50
ReportLimit == 100

(***************************************************************************)
(* Characters and strings.                                                 *)
(***************************************************************************)
Digits == <<"0", "1", "2", "3", "4", "5", "6", "7", "8", "9">>

HexChars == {"0", "1", "2", "3", "4", "5", "6", "7", "8", "9",
             "a", "b", "c", "d", "e", "f", "A", "B", "C", "D", "E", "F"}

\* The element of a one-element set.  The({ e(x) : x \in {v} }) is e(v), with v
\* evaluated once however often e uses it.
The(S) == CHOOSE x \in S : TRUE

\* A request field that is absent from the JSON body.
undefined == <<"undefined">>

\* x || ""
OrEmpty(x) == IF x = undefined THEN <<>> ELSE x

\* String.prototype.toLowerCase, on the letters that occur.
LowerChar(c) ==
  CASE c = "A" -> "a" [] c = "B" -> "b" [] c = "C" -> "c" [] c = "D" -> "d"
    [] c = "E" -> "e" [] c = "F" -> "f" [] c = "X" -> "x" [] c = "M" -> "m"
    [] OTHER -> c

toLowerCase(str) == The({ [i \in 1..Len(s) |-> LowerChar(s[i])] : s \in {str} })

\* The least and the greatest index of s whose character is not c (Len(s) + 1
\* and 0 when there is none).
FirstNot(str, c) ==
  The({ CHOOSE i \in 1..(Len(s) + 1) :
          /\ \A j \in 1..(i - 1) : s[j] = c
          /\ i <= Len(s) => s[i] # c : s \in {str} })
LastNot(str, c) ==
  The({ CHOOSE i \in 0..Len(s) :
          /\ \A j \in (i + 1)..Len(s) : s[j] = c
          /\ i >= 1 => s[i] # c : s \in {str} })

\* String.prototype.trim
trim(str) == The({ SubSeq(s, FirstNot(s, " "), LastNot(s, " ")) : s \in {str} })

\* "0".repeat(n)
Zeros(n) == [i \in 1..n |-> "0"]

\* s.slice(0, n) and s.slice(-n)
SliceHead(s, n) == SubSeq(s, 1, IF n < Len(s) THEN n ELSE Len(s))
SliceTail(s, n) == SubSeq(s, (IF n < Len(s) THEN Len(s) - n ELSE 0) + 1, Len(s))

DigitValue(c) == CHOOSE k \in 0..9 : Digits[k + 1] = c

\* The number the first n digits of s spell.
RECURSIVE NumberOfPrefix(_, _)
NumberOfPrefix(s, n) ==
  IF n = 0 THEN 0 ELSE 10 * NumberOfPrefix(s, n - 1) + DigitValue(s[n])

\* Number(s) for a string of decimal digits (Number("") is 0).
ToNumber(s) == NumberOfPrefix(s, Len(s))

Max(a, b) == IF a > b THEN a ELSE b
Min(a, b) == IF a < b THEN a ELSE b

(***************************************************************************)
(* Address utilities.                                                      *)
(***************************************************************************)
\* /^0x[a-fA-F0-9]{40}$/.test(x)
isEthAddress(x) ==
  /\ Len(x) = HexLen + 2
  /\ x[1] = "0"
  /\ x[2] = "x"
  /\ \A i \in 3..(HexLen + 2) : x[i] \in HexChars

\* normAddr that returns its argument as it came.
normAddr_Identity(x) == x

\* Lines 41-43.
normAddr(x) == toLowerCase(x)

\* s.replace(/^0+/, "") and s.replace(/0+$/, "")
StripLeadingZeros(str) == The({ SubSeq(s, FirstNot(s, "0"), Len(s)) : s \in {str} })
StripTrailingZeros(str) == The({ SubSeq(s, 1, LastNot(s, "0")) : s \in {str} })

\* ShiftPoint that keeps the trailing zeros of the fraction.
ShiftPoint_KeepZeros(v, d) ==
  LET pad == d - Len(v) + 1
      s == IF pad > 0 THEN Zeros(pad) \o v ELSE v
      i == Len(s) - d
      whole == SubSeq(s, 1, i)
      frac == SubSeq(s, i + 1, Len(s))
  IN  IF d = 0 THEN v
      ELSE IF frac # <<>> THEN whole \o <<".">> \o frac ELSE whole

\* Lines 50-57, for the digits v and the fractional digits d of lines 47-48.
ShiftPoint(v, d) ==
  LET pad == d - Len(v) + 1
      s == IF pad > 0 THEN Zeros(pad) \o v ELSE v
      i == Len(s) - d
      whole == SubSeq(s, 1, i)
      frac == StripTrailingZeros(SubSeq(s, i + 1, Len(s)))
  IN  IF d = 0 THEN v
      ELSE IF frac # <<>> THEN whole \o <<".">> \o frac ELSE whole

formatAmount(value, decimals) ==
  The({ ShiftPoint(IF stripped = <<>> THEN <<"0">> ELSE stripped,
                   Max(0, Min(MaxDecimals, decimals)))
          : stripped \in {StripLeadingZeros(value)} })


(***************************************************************************)
(* The environment: request bodies and what the provider may answer.       *)
(***************************************************************************)
\* An address whose 40 hex characters end in `tail', zero-filled on the left.
Addr(tail) == <<"0", "x">> \o Zeros(HexLen - Len(tail)) \o tail

W == Addr(<<"a">>)
B == Addr(<<"b">>)
C == Addr(<<"c">>)
T == Addr(<<"d", "a", "c">>)
\* The same addresses as the caller or the provider may spell them.
WUpper == Addr(<<"A">>)
TUpper == Addr(<<"D", "A", "C">>)
FanAddr(i) == Addr(<<"f", Digits[(i \div 10) + 1], Digits[(i % 10) + 1]>>)

\* A present / an absent numeric field of the request body.
Num(n) == <<n>>
NoNum == <<>>
\* x ?? d
Nullish(x, d) == IF x = NoNum THEN d ELSE x[1]

Body(w, t, dir, hops, limit) ==
  [parsed |-> TRUE, wallet |-> w, token |-> t, direction |-> dir,
   maxHops |-> hops, perAddressLimit |-> limit]

\* A request whose body is not JSON: req.json() rejects.
MalformedBody ==
  [parsed |-> FALSE, wallet |-> undefined, token |-> undefined,
   direction |-> "", maxHops |-> NoNum, perAddressLimit |-> NoNum]

OpenBodies ==
  { Body(W, T, dir, hops, NoNum) :
      dir \in {"downstream", "upstream", "both"},
      hops \in {Num(1), NoNum, Num(3)} }

LedgerBodies ==
  OpenBodies
  \cup { Body(w, T, "", NoNum, NoNum) :
           w \in { WUpper, <<" ">> \o W \o <<" ">>, undefined, <<>>,
                   SubSeq(W, 1, HexLen + 1), W \o <<"0">>,
                   <<"0", "X">> \o SubSeq(W, 3, HexLen + 2),
                   Addr(<<"g">>), SubSeq(W, 3, HexLen + 2) } }
  \cup { Body(W, t, "", NoNum, NoNum) :
           t \in { TUpper, T \o <<" ">>, undefined, Addr(<<"g">>),
                   SubSeq(T, 1, HexLen + 1) } }
  \cup { Body(W, T, "both", hops, limit) :
           hops \in {Num(0), Num(9)}, limit \in {Num(5), Num(500)} }
  \cup { Body(W, T, "", NoNum, NoNum), MalformedBody }
  \cup { Body(W, T, "sideways", NoNum, NoNum) }

FanBodies ==
  { Body(W, T, dir, hops, NoNum) :
      dir \in {"downstream", "upstream", "both"}, hops \in {Num(1), NoNum} }

Item(h, ix, f, t, v, ts, sym, dec) ==
  [hash |-> h, transactionIndex |-> ix, from |-> f, to |-> t, value |-> v,
   timeStamp |-> ts, tokenSymbol |-> sym, tokenDecimal |-> dec]

TwoEther == <<"2">> \o Zeros(18)

\* A transaction hash, shortened to one repeated hex digit.
Hash(c) == <<"0", "x", c, c>>

\* The transfers of the open and the ledger world.  OutB2 is OutB as a second
\* query reports it: the same transfer, `from' spelled in upper case, other
\* attributes.
OutB  == Item(Hash("a"), <<"0">>, W, B, TwoEther, <<"2", "0">>, <<>>, <<"1", "8">>)
OutB2 == Item(Hash("a"), <<"0">>, WUpper, B, TwoEther, <<"3", "0">>, <<"T">>, <<>>)
InB   == Item(Hash("b"), <<"0">>, B, W, <<"1", "5", "0">>, <<"2", "0">>, <<"T">>, <<"2">>)
OutC  == Item(Hash("c"), <<"1">>, W, C, <<"5">>, <<"1", "0">>, <<"T">>, <<>>)
InC   == Item(Hash("d"), <<"0">>, C, W, <<"0", "1">>, <<"4", "0">>, <<"T">>, <<"2">>)
BtoC  == Item(Hash("e"), <<"0">>, B, C, <<"7">>, <<"5", "0">>, <<"T">>, <<"0">>)
Self  == Item(Hash("f"), <<"0">>, W, W, <<"1">>, <<"6", "0">>, <<"T">>, <<"0">>)

OpenItems == {OutB, OutB2, InB, OutC, InC, BtoC, Self}

\* The ledger world: the chain holds these transfers, most recent first, and
\* a query returns those that touch the queried address, capped at `offset'.
Ledger == <<Self, BtoC, InC, OutB, InB, OutC>>

Touches(t, a) == toLowerCase(t.from) = a \/ toLowerCase(t.to) = a

Touching(q, a) == SelectSeq(q, LAMBDA t : Touches(t, a))

\* The chain world: five addresses in a row, W -> B -> C -> D -> E, with a
\* transfer from the last back to the first, one from D back to B and one of
\* B to itself; a query returns the transfers that touch the queried address.
D == Addr(<<"d">>)
E == Addr(<<"e">>)

Chain ==
  <<Item(Hash("7"), <<"0">>, B, B, <<"7">>, <<"7", "0">>, <<"T">>, <<"0">>),
    Item(Hash("6"), <<"0">>, D, B, <<"6">>, <<"6", "0">>, <<"T">>, <<"0">>),
    Item(Hash("5"), <<"0">>, E, W, <<"5">>, <<"5", "0">>, <<"T">>, <<"0">>),
    Item(Hash("4"), <<"0">>, D, E, <<"4">>, <<"4", "0">>, <<"T">>, <<"0">>),
    Item(Hash("3"), <<"0">>, C, D, <<"3">>, <<"3", "0">>, <<"T">>, <<"0">>),
    Item(Hash("2"), <<"0">>, B, C, <<"2">>, <<"2", "0">>, <<"T">>, <<"0">>),
    Item(Hash("1"), <<"0">>, W, B, <<"1">>, <<"1", "0">>, <<"T">>, <<"0">>)>>

ChainBodies ==
  { Body(W, T, dir, hops, NoNum) :
      dir \in {"downstream", "upstream", "both"},
      hops \in {Num(1), Num(2), Num(3), Num(4)} }

\* The sequences over S of length at most n.
SeqsUpTo(S, n) == UNION { [1..k -> S] : k \in 0..n }

IndexDigits(i) == <<Digits[(i \div 10) + 1], Digits[(i % 10) + 1]>>

\* The fan world: the start address pays FanSize counterparties (FanOut), or
\* is paid by them (FanIn); the provider caps a response at `offset' items.
FanOut(offset) ==
  [i \in 1..Min(FanSize, offset) |->
     Item(Hash("e"), IndexDigits(i), W, FanAddr(i), <<"1">>, IndexDigits(i), <<"T">>, <<>>)]
FanIn(offset) ==
  [i \in 1..Min(FanSize, offset) |->
     Item(Hash("f"), IndexDigits(i), FanAddr(i), W, <<"1">>, IndexDigits(i), <<"T">>, <<>>)]

\* The decimal numeral of n < 1000.
Decimal(n) ==
  IF n < 10 THEN <<Digits[n + 1]>>
  ELSE IF n < 100 THEN <<Digits[(n \div 10) + 1], Digits[(n % 10) + 1]>>
  ELSE <<Digits[(n \div 100) + 1], Digits[((n \div 10) % 10) + 1], Digits[(n % 10) + 1]>>

\* The bulk world: the start address has BulkSize transfers, sent to B and
\* received from B in turn.  BulkSorted lists them most recent first, as the
\* query asks (sort=desc); BulkShuffled in another order, with equal
\* timestamps among them.
BulkItem(i, ts) ==
  Item(Hash("d"), Decimal(i), IF i % 2 = 1 THEN W ELSE B, IF i % 2 = 1 THEN B ELSE W,
       Decimal(i), Decimal(ts), <<"T">>, <<"0">>)
BulkSorted(offset) == [i \in 1..Min(BulkSize, offset) |-> BulkItem(i, 500 - i)]
BulkShuffled(offset) == [i \in 1..Min(BulkSize, offset) |-> BulkItem(i, (i * 37) % 50)]

BulkBodies == { Body(W, T, "both", Num(1), limit) : limit \in {Num(500), NoNum} }

\* The transfers of the first counterparty in the fan world: it pays B and is
\* paid by C.
FanNext ==
  <<Item(Hash("b"), <<"0">>, FanAddr(1), B, <<"3">>, <<"7", "0">>, <<"T">>, <<>>),
    Item(Hash("c"), <<"0">>, C, FanAddr(1), <<"4">>, <<"8", "0">>, <<"T">>, <<>>)>>

\* An item of a response that lacks its `from' field.
Broken == Item(Hash("9"), <<"0">>, undefined, B, <<"1">>, <<"9", "0">>, <<"T">>, <<>>)

\* What one tokentx call may produce: a rejected fetch or json() ("throw"), or
\* a JSON body with a status and a result (a list of items, or a string).
Thrown ==
  [kind |-> "throw", status |-> "", message |-> "", result |-> <<>>, isArray |-> FALSE]
Json(status, message, result, isArray) ==
  [kind |-> "json", status |-> status, message |-> message, result |-> result,
   isArray |-> isArray]
\* {"status":"0","message":"No transactions found","result":[]}
NoTransactions == Json("0", "No transactions found", <<>>, TRUE)
\* {"status":"0","message":"NOTOK","result":"Max rate limit reached"}
NotOk == Json("0", "NOTOK", <<>>, FALSE)
\* {"status":"1","message":"OK","result":"..."}: a result that is no array
OkNotArray == Json("1", "OK", <<>>, FALSE)
OkList(items) == Json("1", "OK", items, TRUE)


(***************************************************************************)
(* State.                                                                  *)
(***************************************************************************)
VARIABLES
  world,          \* the provider the trace runs against ("open", "ledger", ...)
  body,           \* the request body
  apiKey,         \* whether ETHERSCAN_API_KEY is set
  pc,             \* position of the handler
  start,          \* normalized wallet
  tokenNorm,      \* normalized token
  direction,
  maxHops,
  perAddressLimit,
  nodes,          \* Map id -> GraphNode
  edges,          \* Map edgeKey -> GraphEdge, as its values in insertion order
  transfers,      \* the start-address transfer report
  frontier,       \* Set, in insertion order
  visited,
  classifyQueue,
  hop,
  nextFrontier,   \* Set, in insertion order
  cursor,         \* index in frontier of the address being queried
  list,           \* items of the current response still to be processed
  pending,        \* isContract lookups in flight
  response,       \* <<>> until the handler returns, then <<the response>>
  budget,         \* items the open-world provider may still return
  queries,        \* history: the tokentx calls issued and how each ended
  lookups,        \* history: the eth_getCode calls issued, in order
  replies,        \* history: address -> how its eth_getCode call ended
  overflow,       \* history: addresses first seen when classifyQueue was full
  observed,       \* history: (hash, txIndex, from, to, value) of the included transfers
  hopLog,         \* history: per hop begun, its frontier and visited at its start
  other,          \* <<>>, or <<the state of a second invocation, suspended>>
  call            \* <<>>, or <<a call of formatAmount and, once made, its result>>

vars ==
  <<world, body, apiKey, pc, start, tokenNorm, direction, maxHops,
    perAddressLimit, nodes, edges, transfers, frontier, visited, classifyQueue,
    hop, nextFrontier, cursor, list, pending, response, budget, queries,
    lookups, replies, overflow, observed, hopLog, other, call>>

\* What no step of the handler changes: the provider, the request, the
\* environment and the state of another invocation.
request == <<world, body, apiKey, other, call>>
params == <<start, tokenNorm, direction, maxHops, perAddressLimit>>
graph == <<nodes, edges, transfers>>
history == <<queries, lookups, replies, overflow, observed, hopLog>>

Range(q) == { q[i] : i \in 1..Len(q) }

\* Set.prototype.add on a Set kept in insertion order.
SetAdd(q, x) == IF x \in Range(q) THEN q ELSE Append(q, x)

\* The k-th least element of a set of numbers.
Nth(S, k) == CHOOSE i \in S : Cardinality({ j \in S : j <= i }) = k

\* Array.from(new Set(q)): the first occurrences, in order.
Dedupe(q) ==
  The({ [k \in 1..Cardinality(first) |-> q[Nth(first, k)]]
          : first \in {{ i \in 1..Len(q) : \A j \in 1..(i - 1) : q[j] # q[i] }} })

EmptyMap == [a \in {} |-> {}]

Init ==
  /\ \/ world = "open" /\ body \in OpenBodies
     \/ world = "ledger" /\ body \in LedgerBodies
     \/ world = "fan" /\ body \in FanBodies
     \/ world = "bulk" /\ body \in BulkBodies
     \/ world = "chain" /\ body \in ChainBodies
  /\ apiKey \in IF world = "ledger" /\ body = Body(W, T, "", NoNum, NoNum)
                  THEN BOOLEAN ELSE {TRUE}
  /\ pc = "request"
  /\ start = <<>>
  /\ tokenNorm = <<>>
  /\ direction = ""
  /\ maxHops = 0
  /\ perAddressLimit = 0
  /\ nodes = EmptyMap
  /\ edges = <<>>
  /\ transfers = <<>>
  /\ frontier = <<>>
  /\ visited = {}
  /\ classifyQueue = <<>>
  /\ hop = 0
  /\ nextFrontier = <<>>
  /\ cursor = 0
  /\ list = <<>>
  /\ pending = {}
  /\ response = <<>>
  /\ budget = IF world = "open" THEN MaxTransfers ELSE 0
  /\ queries = <<>>
  /\ lookups = <<>>
  /\ replies = EmptyMap
  /\ overflow = {}
  /\ observed = {}
  /\ hopLog = <<>>
  /\ other = <<>>
  /\ call = <<>>

(***************************************************************************)
(* The handler: request parsing and validation.                            *)
(***************************************************************************)
\* A failure that always reports itself as a validation failure.
Failure_AsValidation(status, error) == [ok |-> FALSE, status |-> 400, error |-> error]

\* Lines 130, 133, 138-141, 324-327: a failure response.
Failure(status, error) == [ok |-> FALSE, status |-> status, error |-> error]

OriginLabel(a) == [origin |-> TRUE, head |-> SliceHead(a, 6), tail |-> SliceTail(a, 4)]
ShortLabel(a) == [origin |-> FALSE, head |-> SliceHead(a, 6), tail |-> SliceTail(a, 4)]

GraphNode(a, label, kind) == [id |-> a, label |-> label, kind |-> kind]

ClampHops(x) == Max(MinHops, Min(MaxHops, Nullish(x, DefaultHops)))
ClampLimit(x) == Max(MinLimit, Min(MaxLimit, Nullish(x, DefaultLimit)))
DirectionOf(x) == IF x = "" THEN "downstream" ELSE x

\* Rejection with the token check left out.
Rejection_NoTokenCheck(b, key) ==
  IF ~b.parsed THEN <<Failure(500, "Server error")>>
  ELSE IF ~isEthAddress(trim(OrEmpty(b.wallet)))
    THEN <<Failure(400, "Invalid wallet address")>>
  ELSE IF ~key THEN <<Failure(500, "Missing ETHERSCAN_API_KEY")>>
  ELSE <<>>

\* The response of a request that does not reach the traversal, or <<>>.
Rejection(b, key) ==
  IF ~b.parsed THEN <<Failure(500, "Server error")>>
  ELSE IF ~isEthAddress(trim(OrEmpty(b.wallet)))
    THEN <<Failure(400, "Invalid wallet address")>>
  ELSE IF ~isEthAddress(trim(OrEmpty(b.token)))
    THEN <<Failure(400, "Invalid token contract address")>>
  ELSE IF ~key THEN <<Failure(500, "Missing ETHERSCAN_API_KEY")>>
  ELSE <<>>

\* Lines 113-164: parse the body, validate, set up the traversal.
Validate ==
  /\ pc = "request"
  /\ IF Rejection(body, apiKey) # <<>>
       THEN /\ response' = Rejection(body, apiKey)
            /\ pc' = "done"
            /\ UNCHANGED <<params, graph, frontier, visited, classifyQueue>>
       ELSE LET wallet == trim(OrEmpty(body.wallet))
                token == trim(OrEmpty(body.token))
                s == normAddr(wallet)
            IN  /\ start' = s
                /\ tokenNorm' = normAddr(token)
                /\ direction' = DirectionOf(body.direction)
                /\ maxHops' = ClampHops(body.maxHops)
                /\ perAddressLimit' = ClampLimit(body.perAddressLimit)
                /\ nodes' = (s :> GraphNode(s, OriginLabel(s), "unknown"))
                /\ frontier' = <<s>>
                /\ visited' = {s}
                /\ classifyQueue' = <<s>>
                /\ pc' = "hop"
                /\ UNCHANGED <<response, edges, transfers>>
  /\ UNCHANGED <<request, hop, nextFrontier, cursor, list, pending, budget, history>>


(***************************************************************************)
(* The provider's tokentx answers.                                         *)
(***************************************************************************)
\* The answers to a query that finds the items `found'.
Found(found) == IF found = <<>> THEN NoTransactions ELSE OkList(found)

\* Twin world: the ledger's transfers of the address, always.  Chain world:
\* the chain's transfers of the address, always.  Bulk world: the
\* start address has BulkSize transfers, in one of two orders.
\* Open world: any answer, within the budget of items.  Ledger world: the
\* ledger's transfers of the address, or a failure.  Fan world: the start
\* address has FanSize transfers, its first counterparty two, the others none.
etherscanTokentx(w, a, s, offset, left) ==
  IF w = "open"
    THEN {Thrown, NoTransactions, NotOk, OkNotArray}
           \cup { OkList(l) : l \in SeqsUpTo(OpenItems, left) \ {<<>>} }
  ELSE IF w = "ledger"
    THEN {Thrown, NotOk, Found(SliceHead(Touching(Ledger, a), offset))}
  ELSE IF w = "twin"
    THEN {Found(SliceHead(Touching(Ledger, a), offset))}
  ELSE IF w = "chain"
    THEN {Found(SliceHead(Touching(Chain, a), offset))}
  ELSE IF w = "bulk"
    THEN (IF a = s THEN {OkList(BulkSorted(offset)), OkList(BulkShuffled(offset))}
                   ELSE {NoTransactions})
  ELSE IF a = s
    THEN {OkList(FanOut(offset)), OkList(FanIn(offset)), NotOk}
  ELSE IF a = FanAddr(1)
    THEN {OkList(SliceHead(FanNext, offset)),
          OkList(SliceHead(FanNext \o <<Broken>>, offset))}
  ELSE {NoTransactions}

(***************************************************************************)
(* The handler: one transfer of a response (lines 183-269).                *)
(***************************************************************************)
\* Include with the direction policy left out.
Include_Any(dir, isOut, isIn) == TRUE

\* Include that skips a transfer of the queried address to itself.
Include_NoSelf(dir, isOut, isIn) ==
  /\ ~(isOut /\ isIn)
  /\ \/ dir = "both"
     \/ dir = "downstream" /\ isOut
     \/ dir = "upstream" /\ isIn

\* Lines 191-194.
Include(dir, isOut, isIn) ==
  \/ dir = "both"
  \/ dir = "downstream" /\ isOut
  \/ dir = "upstream" /\ isIn

\* Line 202.
EdgeKey(t, from, to) ==
  t.hash \o <<":">> \o t.transactionIndex \o <<":">> \o from \o <<":">> \o to
    \o <<":">> \o t.value

HasEdge(es, key) == \E i \in 1..Len(es) : es[i].id = key

\* Lines 204-206.
EdgeLabel(t) ==
  trim(formatAmount(t.value, ToNumber(OrEmpty(t.tokenDecimal)))
         \o <<" ">> \o OrEmpty(t.tokenSymbol))

\* EdgeUpsert without the `has' test: a later observation of a key replaces
\* the edge's value.
EdgeUpsert_Overwrite(es, t, from, to, ts) ==
  LET e == [id |-> EdgeKey(t, from, to), source |-> from, target |-> to,
            label |-> EdgeLabel(t), txHash |-> t.hash, timeStamp |-> ts]
  IN  IF HasEdge(es, e.id)
        THEN [i \in 1..Len(es) |-> IF es[i].id = e.id THEN e ELSE es[i]]
        ELSE Append(es, e)

\* Lines 203-216.
EdgeUpsert(es, t, from, to, ts) ==
  IF HasEdge(es, EdgeKey(t, from, to)) THEN es
  ELSE Append(es, [id |-> EdgeKey(t, from, to), source |-> from, target |-> to,
                   label |-> EdgeLabel(t), txHash |-> t.hash, timeStamp |-> ts])

\* NodeInsert that creates no node.
NodeInsert_Never(ns, a) == ns

\* Lines 219-224 and 228-233.
NodeInsert(ns, a) ==
  IF a \in DOMAIN ns THEN ns
  ELSE ns @@ (a :> GraphNode(a, ShortLabel(a), "unknown"))

\* QueuePush without the MAX_CLASSIFY test.
QueuePush_Unbounded(q, ns, a) ==
  IF a \notin DOMAIN ns THEN Append(q, a) ELSE q

\* QueuePush that does not look whether the address is a node already.
QueuePush_NoNodeCheck(q, ns, a) ==
  IF Len(q) < MAX_CLASSIFY THEN Append(q, a) ELSE q

\* Lines 219, 225 and 228, 234: ns is the node map before a is inserted.
QueuePush(q, ns, a) ==
  IF a \notin DOMAIN ns /\ Len(q) < MAX_CLASSIFY THEN Append(q, a) ELSE q

\* Enqueue without the `visited' test.
Enqueue_NoVisitedCheck(cond, a, st) ==
  IF cond
    THEN [visited |-> st.visited \cup {a}, next |-> SetAdd(st.next, a)]
    ELSE st

\* Enqueue that adds to the next frontier without recording the visit.
Enqueue_NoVisitedAdd(cond, a, st) ==
  IF cond /\ a \notin st.visited
    THEN [visited |-> st.visited, next |-> SetAdd(st.next, a)]
    ELSE st

\* One `if (cond && !visited.has(a)) { visited.add(a); nextFrontier.add(a) }'.
Enqueue(cond, a, st) ==
  IF cond /\ a \notin st.visited
    THEN [visited |-> st.visited \cup {a}, next |-> SetAdd(st.next, a)]
    ELSE st

\* Grow that follows, under downstream and upstream, the wrong end of the
\* transfer.
Grow_WrongEnd(dir, isOut, isIn, from, to, st) ==
  IF dir = "downstream" THEN Enqueue(isIn, from, st)
  ELSE IF dir = "upstream" THEN Enqueue(isOut, to, st)
  ELSE Enqueue(isIn, from, Enqueue(isOut, to, st))

\* Lines 238-258.
Grow(dir, isOut, isIn, from, to, st) ==
  IF dir = "downstream" THEN Enqueue(isOut, to, st)
  ELSE IF dir = "upstream" THEN Enqueue(isIn, from, st)
  ELSE Enqueue(isIn, from, Enqueue(isOut, to, st))

\* Report with the derived direction the wrong way round.
Report_Inverted(ts, t, from, addr, s) ==
  IF addr = s
    THEN Append(ts, [item |-> t,
                     direction |-> IF from = s THEN "in" ELSE "out",
                     amountFormatted |->
                       trim(formatAmount(t.value, ToNumber(OrEmpty(t.tokenDecimal)))
                              \o <<" ">> \o t.tokenSymbol)])
    ELSE ts

\* Lines 261-268.
Report(ts, t, from, addr, s) ==
  IF addr = s
    THEN Append(ts, [item |-> t,
                     direction |-> IF from = s THEN "out" ELSE "in",
                     amountFormatted |->
                       trim(formatAmount(t.value, ToNumber(OrEmpty(t.tokenDecimal)))
                              \o <<" ">> \o t.tokenSymbol)])
    ELSE ts

\* The address being queried.
addr == frontier[cursor]

(***************************************************************************)
(* The handler: the hop loop (lines 166-274).                              *)
(***************************************************************************)
\* BeginHop with the loop test `hop <= maxHops'.
BeginHop_OffByOne ==
  /\ pc = "hop"
  /\ IF hop <= maxHops
       THEN /\ nextFrontier' = <<>>
            /\ cursor' = 1
            /\ pc' = "query"
            /\ hopLog' = Append(hopLog, [frontier |-> frontier, visited |-> visited])
       ELSE /\ pc' = "classify"
            /\ UNCHANGED <<nextFrontier, cursor, hopLog>>
  /\ UNCHANGED <<request, params, graph, frontier, visited, classifyQueue, hop,
                 list, pending, response, budget, queries, lookups, replies,
                 overflow, observed>>

\* Lines 166-167: the loop test and the fresh nextFrontier.
BeginHop ==
  /\ pc = "hop"
  /\ IF hop < maxHops
       THEN /\ nextFrontier' = <<>>
            /\ cursor' = 1
            /\ pc' = "query"
            /\ hopLog' = Append(hopLog, [frontier |-> frontier, visited |-> visited])
       ELSE /\ pc' = "classify"
            /\ UNCHANGED <<nextFrontier, cursor, hopLog>>
  /\ UNCHANGED <<request, params, graph, frontier, visited, classifyQueue, hop,
                 list, pending, response, budget, queries, lookups, replies,
                 overflow, observed>>

\* Query that treats a status other than "1" as an error of the trace.
Query_FailOnNotOk ==
  /\ pc = "query"
  /\ cursor <= Len(frontier)
  /\ \E r \in etherscanTokentx(world, addr, start, perAddressLimit, budget) :
       /\ queries' = Append(queries,
                            [address |-> addr, token |-> tokenNorm,
                             offset |-> perAddressLimit, hop |-> hop,
                             kind |-> r.kind, status |-> r.status,
                             message |-> r.message, isArray |-> r.isArray,
                             result |-> r.result])
       /\ budget' = IF world = "open" THEN budget - Len(r.result) ELSE budget
       /\ IF r.kind = "throw" \/ r.status # "1"
            THEN /\ response' = <<Failure(500, "fetch failed")>>
                 /\ pc' = "done"
                 /\ UNCHANGED <<cursor, list>>
          ELSE IF ~r.isArray \/ r.result = <<>>
            THEN /\ cursor' = cursor + 1
                 /\ UNCHANGED <<pc, list, response>>
          ELSE /\ list' = r.result
               /\ pc' = "merge"
               /\ UNCHANGED <<cursor, response>>
  /\ UNCHANGED <<request, params, graph, frontier, visited, classifyQueue, hop,
                 nextFrontier, pending, lookups, replies, overflow, observed,
                 hopLog>>

\* Lines 169-182: query the next frontier address.
Query ==
  /\ pc = "query"
  /\ cursor <= Len(frontier)
  /\ \E r \in etherscanTokentx(world, addr, start, perAddressLimit, budget) :
       /\ queries' = Append(queries,
                            [address |-> addr, token |-> tokenNorm,
                             offset |-> perAddressLimit, hop |-> hop,
                             kind |-> r.kind, status |-> r.status,
                             message |-> r.message, isArray |-> r.isArray,
                             result |-> r.result])
       /\ budget' = IF world = "open" THEN budget - Len(r.result) ELSE budget
       /\ IF r.kind = "throw"
            THEN /\ response' = <<Failure(500, "fetch failed")>>
                 /\ pc' = "done"
                 /\ UNCHANGED <<cursor, list>>
          ELSE IF r.status # "1" \/ ~r.isArray \/ r.result = <<>>
            THEN /\ cursor' = cursor + 1
                 /\ UNCHANGED <<pc, list, response>>
          ELSE /\ list' = r.result
               /\ pc' = "merge"
               /\ UNCHANGED <<cursor, response>>
  /\ UNCHANGED <<request, params, graph, frontier, visited, classifyQueue, hop,
                 nextFrontier, pending, lookups, replies, overflow, observed,
                 hopLog>>

\* An item without `from' or `to': normAddr (lines 184-185) throws on it.
Malformed(t) == t.from = undefined \/ t.to = undefined

\* Lines 183-269: process the next item of the response.
Merge ==
  /\ pc = "merge"
  /\ IF Malformed(Head(list))
       THEN /\ response' = <<Failure(500, "TypeError")>>
            /\ pc' = "done"
            /\ UNCHANGED <<graph, visited, classifyQueue, nextFrontier, overflow,
                           observed, list, cursor>>
       ELSE /\ \E t \in {Head(list)}, from \in {normAddr(Head(list).from)},
                  to \in {normAddr(Head(list).to)} :
               LET ts == ToNumber(OrEmpty(t.timeStamp))
                   isOut == from = addr
                   isIn == to = addr
                   withFrom == NodeInsert(nodes, from)
                   queued == QueuePush(classifyQueue, nodes, from)
                   grown == Grow(direction, isOut, isIn, from, to,
                                 [visited |-> visited, next |-> nextFrontier])
               IN  IF ~Include(direction, isOut, isIn)
                     THEN UNCHANGED <<graph, visited, classifyQueue, nextFrontier,
                                      overflow, observed>>
                     ELSE /\ edges' = EdgeUpsert(edges, t, from, to, ts)
                          /\ observed' = observed
                               \cup {<<t.hash, t.transactionIndex, from, to, t.value>>}
                          /\ nodes' = NodeInsert(withFrom, to)
                          /\ classifyQueue' = QueuePush(queued, withFrom, to)
                          /\ overflow' = overflow
                               \cup (IF from \notin DOMAIN nodes
                                        /\ Len(classifyQueue) >= MAX_CLASSIFY
                                      THEN {from} ELSE {})
                               \cup (IF to \notin DOMAIN withFrom
                                        /\ Len(queued) >= MAX_CLASSIFY
                                      THEN {to} ELSE {})
                          /\ visited' = grown.visited
                          /\ nextFrontier' = grown.next
                          /\ transfers' = Report(transfers, t, from, addr, start)
            /\ list' = Tail(list)
            /\ IF Tail(list) = <<>>
                 THEN cursor' = cursor + 1 /\ pc' = "query"
                 ELSE UNCHANGED <<cursor, pc>>
            /\ UNCHANGED response
  /\ UNCHANGED <<request, params, frontier, hop, pending, budget, queries,
                 lookups, replies, hopLog>>

\* EndHop that may leave the hop before the last address is queried.
EndHop_SkipLast ==
  /\ pc = "query"
  /\ cursor >= Len(frontier)
  /\ frontier' = nextFrontier
  /\ IF nextFrontier = <<>>
       THEN pc' = "classify" /\ UNCHANGED hop
       ELSE pc' = "hop" /\ hop' = hop + 1
  /\ UNCHANGED <<request, params, graph, visited, classifyQueue, nextFrontier,
                 cursor, list, pending, response, budget, history>>

\* EndHop that adds the next frontier to the frontier instead of replacing it.
EndHop_KeepFrontier ==
  /\ pc = "query"
  /\ cursor > Len(frontier)
  /\ frontier' = frontier \o nextFrontier
  /\ IF nextFrontier = <<>>
       THEN pc' = "classify" /\ UNCHANGED hop
       ELSE pc' = "hop" /\ hop' = hop + 1
  /\ UNCHANGED <<request, params, graph, visited, classifyQueue, nextFrontier,
                 cursor, list, pending, response, budget, history>>

\* Lines 272-273 and the loop increment.
EndHop ==
  /\ pc = "query"
  /\ cursor > Len(frontier)
  /\ frontier' = nextFrontier
  /\ IF nextFrontier = <<>>
       THEN pc' = "classify" /\ UNCHANGED hop
       ELSE pc' = "hop" /\ hop' = hop + 1
  /\ UNCHANGED <<request, params, graph, visited, classifyQueue, nextFrontier,
                 cursor, list, pending, response, budget, history>>


(***************************************************************************)
(* The handler: classification (lines 276-288) and the response.           *)
(***************************************************************************)
\* What one eth_getCode call may produce: a rejected fetch or json(), or a
\* JSON body whose result is bytecode, "0x", or an error text.
CodeThrown == [kind |-> "throw", status |-> "", result |-> undefined]
CodeResult(result) == [kind |-> "json", status |-> "", result |-> result]
\* {"status":"0","message":"NOTOK","result":"Max rate limit reached"}
CodeNotOk == [kind |-> "json", status |-> "0", result |-> <<"M", "a", "x">>]
NoCode == CodeResult(<<"0", "x">>)
NoCodeUpper == CodeResult(<<"0", "X", "0">>)
ByteCode == CodeResult(<<"0", "x", "6", "0">>)

\* Ledger world: any answer.  Open, twin and chain world: C is a contract,
\* the others are not, and no lookup fails.  Fan and bulk world: the lookups of the start
\* address and of the first counterparty may fail, the others find no code.
CodeReplies(w, a, s) ==
  IF w = "ledger" THEN {CodeThrown, CodeNotOk, NoCode, NoCodeUpper, ByteCode}
  ELSE IF w \in {"open", "twin", "chain"} THEN (IF a = C THEN {ByteCode} ELSE {NoCode})
  ELSE IF a = s THEN {CodeThrown, NoCode, ByteCode}
  ELSE IF a = FanAddr(1) THEN {CodeNotOk, NoCode}
  ELSE {NoCode}

\* Lines 92-93.
isContractAddress(r) ==
  LET code == toLowerCase(OrEmpty(r.result))
  IN  code # <<"0", "x">> /\ code # <<"0", "x", "0">>

\* Line 277.
toClassify(q) == SliceHead(Dedupe(q), MAX_CLASSIFY)

\* Lines 278-279: the lookups are issued together, in queue order.
StartClassify ==
  /\ pc = "classify"
  /\ lookups' = toClassify(classifyQueue)
  /\ pending' = Range(toClassify(classifyQueue))
  /\ pc' = "lookups"
  /\ UNCHANGED <<request, params, graph, frontier, visited, classifyQueue, hop,
                 nextFrontier, cursor, list, response, budget, queries, replies,
                 overflow, observed, hopLog>>

\* The lookups that may complete next: any in the ledger world; in the open
\* and the fan world the provider answers in the order asked.
Completable ==
  IF world = "ledger" THEN pending
  ELSE { lookups[i] : i \in { j \in 1..Len(lookups) :
                                /\ lookups[j] \in pending
                                /\ \A k \in 1..(j - 1) : lookups[k] \notin pending } }

\* Classified that writes back the node map as it was when the lookups were
\* issued, with its own node's kind set: the kinds set meanwhile are lost.
Classified_FromSnapshot(ns, a, r) ==
  IF r.kind = "throw" \/ a \notin DOMAIN ns THEN ns
  ELSE [b \in DOMAIN ns |->
          IF b = a
            THEN [ns[b] EXCEPT !.kind = IF isContractAddress(r) THEN "contract"
                                                                  ELSE "wallet"]
            ELSE [ns[b] EXCEPT !.kind = "unknown"]]

\* Lines 280-286: the kind a completed lookup leaves in the node map.
Classified(ns, a, r) ==
  IF r.kind = "throw" \/ a \notin DOMAIN ns THEN ns
  ELSE [ns EXCEPT ![a].kind = IF isContractAddress(r) THEN "contract" ELSE "wallet"]

\* Lines 280-286: one lookup completes.
ClassifyDone ==
  /\ pc = "lookups"
  /\ \E a \in Completable :
       \E r \in CodeReplies(world, a, start) :
         /\ nodes' = Classified(nodes, a, r)
         /\ pending' = pending \ {a}
         /\ replies' = replies @@ (a :> r)
  /\ UNCHANGED <<request, params, edges, transfers, frontier, visited,
                 classifyQueue, hop, nextFrontier, cursor, list, pc, response,
                 budget, queries, lookups, overflow, observed, hopLog>>

\* Polish that gives every unclassified node, not only the start node, the
\* `wallet' default.
Polish_All(ns, s) ==
  [a \in DOMAIN ns |->
     [ns[a] EXCEPT !.kind = IF @ = "unknown" THEN "wallet" ELSE @,
                   !.label = IF a = s THEN OriginLabel(s) ELSE @]]

\* Polish that gives the start node the kind `wallet' whatever its lookup found.
Polish_ForceWallet(ns, s) ==
  IF s \in DOMAIN ns
    THEN [ns EXCEPT ![s].kind = "wallet", ![s].label = OriginLabel(s)]
    ELSE ns

\* Lines 291-298.
Polish(ns, s) ==
  IF s \in DOMAIN ns
    THEN [ns EXCEPT ![s].kind = IF @ = "unknown" THEN "wallet" ELSE @,
                    ![s].label = OriginLabel(s)]
    ELSE ns

\* StableDescOrder with equal keys in reverse order: a sort that is not stable.
StableDescOrder_TiesReversed(keys) ==
  The({ The({ [p \in 1..Len(ks) |-> CHOOSE i \in 1..Len(ks) : rank[i] = p]
                : rank \in {[i \in 1..Len(ks) |->
                               1 + Cardinality({ j \in 1..Len(ks) :
                                                   \/ ks[j] > ks[i]
                                                   \/ ks[j] = ks[i] /\ j > i })]} })
          : ks \in {keys} })

\* The indices of ks in the order a stable sort by descending key gives:
\* index i comes after the greater keys and after the equal keys before it.
StableDescOrder(keys) ==
  The({ The({ [p \in 1..Len(ks) |-> CHOOSE i \in 1..Len(ks) : rank[i] = p]
                : rank \in {[i \in 1..Len(ks) |->
                               1 + Cardinality({ j \in 1..Len(ks) :
                                                   \/ ks[j] > ks[i]
                                                   \/ ks[j] = ks[i] /\ j < i })]} })
          : ks \in {keys} })

\* Line 302.
SortEdges(es) ==
  The({ [i \in 1..Len(es) |-> es[order[i]]]
          : order \in {StableDescOrder([i \in 1..Len(es) |-> es[i].timeStamp])} })

\* SortTransfers that leaves the report in the order recorded.
SortTransfers_Unsorted(ts) == ts

\* Line 303.
SortTransfers(ts) ==
  The({ [i \in 1..Len(ts) |-> ts[order[i]]]
          : order \in {StableDescOrder(
                         [i \in 1..Len(ts) |-> ToNumber(ts[i].item.timeStamp)])} })

\* Lines 305-322.
Success(ns, es, ts) ==
  [ok |-> TRUE, status |-> 200, wallet |-> start, token |-> tokenNorm,
   direction |-> direction, maxHops |-> maxHops,
   perAddressLimit |-> perAddressLimit,
   graph |-> [nodes |-> ns, edges |-> es],
   summary |-> [nodes |-> Cardinality(DOMAIN ns), edges |-> Len(es),
                startTransfers |-> Len(ts)],
   startTransfers |-> SliceHead(ts, ReportLimit)]

\* Lines 288-322: every lookup has settled; polish, sort, respond.
Finish ==
  /\ pc = "lookups"
  /\ pending = {}
  /\ \E ns \in {Polish(nodes, start)}, es \in {SortEdges(edges)},
        ts \in {SortTransfers(transfers)} :
       /\ nodes' = ns
       /\ transfers' = ts
       /\ response' = <<Success(ns, es, ts)>>
  /\ pc' = "done"
  /\ UNCHANGED <<request, params, edges, frontier, visited, classifyQueue, hop,
                 nextFrontier, cursor, list, pending, budget, history>>

Next ==
  \/ Validate
  \/ BeginHop
  \/ Query
  \/ Merge
  \/ EndHop
  \/ StartClassify
  \/ ClassifyDone
  \/ Finish

Spec == Init /\ [][Next]_vars

(***************************************************************************)
(* Two invocations of the handler in one process.  Every variable of a     *)
(* trace (lines 115-167) is local to the invocation; the process runs one  *)
(* invocation at a time and may turn to the other wherever the first       *)
(* awaits (lines 115, 170, 278).                                           *)
(***************************************************************************)
\* The state of the running invocation.
Locals ==
  [body |-> body, pc |-> pc, start |-> start, tokenNorm |-> tokenNorm,
   direction |-> direction, maxHops |-> maxHops,
   perAddressLimit |-> perAddressLimit, nodes |-> nodes, edges |-> edges,
   transfers |-> transfers, frontier |-> frontier, visited |-> visited,
   classifyQueue |-> classifyQueue, hop |-> hop, nextFrontier |-> nextFrontier,
   cursor |-> cursor, list |-> list, pending |-> pending, response |-> response,
   budget |-> budget, queries |-> queries, lookups |-> lookups,
   replies |-> replies, overflow |-> overflow, observed |-> observed,
   hopLog |-> hopLog]

\* The state of an invocation that has not begun.
Fresh(b) ==
  [body |-> b, pc |-> "request", start |-> <<>>, tokenNorm |-> <<>>,
   direction |-> "", maxHops |-> 0, perAddressLimit |-> 0, nodes |-> EmptyMap,
   edges |-> <<>>, transfers |-> <<>>, frontier |-> <<>>, visited |-> {},
   classifyQueue |-> <<>>, hop |-> 0, nextFrontier |-> <<>>, cursor |-> 0,
   list |-> <<>>, pending |-> {}, response |-> <<>>, budget |-> 0,
   queries |-> <<>>, lookups |-> <<>>, replies |-> EmptyMap, overflow |-> {},
   observed |-> {}, hopLog |-> <<>>]

\* The running invocation takes on the state l.
Resume(l) ==
  /\ body' = l.body
  /\ pc' = l.pc
  /\ start' = l.start
  /\ tokenNorm' = l.tokenNorm
  /\ direction' = l.direction
  /\ maxHops' = l.maxHops
  /\ perAddressLimit' = l.perAddressLimit
  /\ nodes' = l.nodes
  /\ edges' = l.edges
  /\ transfers' = l.transfers
  /\ frontier' = l.frontier
  /\ visited' = l.visited
  /\ classifyQueue' = l.classifyQueue
  /\ hop' = l.hop
  /\ nextFrontier' = l.nextFrontier
  /\ cursor' = l.cursor
  /\ list' = l.list
  /\ pending' = l.pending
  /\ response' = l.response
  /\ budget' = l.budget
  /\ queries' = l.queries
  /\ lookups' = l.lookups
  /\ replies' = l.replies
  /\ overflow' = l.overflow
  /\ observed' = l.observed
  /\ hopLog' = l.hopLog

\* The handler is at an await (or has returned).
Awaiting ==
  \/ pc \in {"request", "lookups", "done"}
  \/ pc = "query" /\ cursor <= Len(frontier)

\* Switch with `visited' a process-wide singleton: the invocation resumed
\* finds the set the suspended one left.
Switch_SharedVisited ==
  /\ other # <<>>
  /\ Awaiting
  /\ other' = <<Locals>>
  /\ Resume([other[1] EXCEPT !.visited = visited])
  /\ UNCHANGED <<world, apiKey, call>>

\* The process suspends the running invocation and resumes the other.
Switch ==
  /\ other # <<>>
  /\ Awaiting
  /\ other' = <<Locals>>
  /\ Resume(other[1])
  /\ UNCHANGED <<world, apiKey, call>>

TwinBodies ==
  { Body(w, T, dir, NoNum, NoNum) : w \in {W, B}, dir \in {"downstream", "both"} }

TwinInit ==
  /\ world = "twin"
  /\ apiKey = TRUE
  /\ body \in TwinBodies
  /\ pc = "request"
  /\ start = <<>>
  /\ tokenNorm = <<>>
  /\ direction = ""
  /\ maxHops = 0
  /\ perAddressLimit = 0
  /\ nodes = EmptyMap
  /\ edges = <<>>
  /\ transfers = <<>>
  /\ frontier = <<>>
  /\ visited = {}
  /\ classifyQueue = <<>>
  /\ hop = 0
  /\ nextFrontier = <<>>
  /\ cursor = 0
  /\ list = <<>>
  /\ pending = {}
  /\ response = <<>>
  /\ budget = 0
  /\ queries = <<>>
  /\ lookups = <<>>
  /\ replies = EmptyMap
  /\ overflow = {}
  /\ observed = {}
  /\ hopLog = <<>>
  /\ other \in { <<Fresh(b)>> : b \in TwinBodies }
  /\ call = <<>>

TwinNext ==
  \/ Next
  \/ Switch

TwinSpec == TwinInit /\ [][TwinNext]_vars

\* The handler is a single async function: whenever it can take a step it
\* eventually does, provided every provider call returns.
FairSpec == Spec /\ WF_vars(Next)

(***************************************************************************)
(* formatAmount on its own: one call, on a raw amount and a number of      *)
(* decimals.                                                               *)
(***************************************************************************)
\* The strings of 1..n characters drawn from S.
RECURSIVE StringsOver(_, _)
StringsOver(S, n) ==
  IF n = 0 THEN {}
  ELSE LET shorter == StringsOver(S, n - 1)
       IN  { <<c>> : c \in S } \cup shorter \cup { Append(x, c) : x \in shorter, c \in S }

OneEther == <<"1">> \o Zeros(18)
OneAndAHalfEther == <<"1", "5">> \o Zeros(17)

\* Raw amounts: short digit strings, with and without leading and trailing
\* zeros, and two amounts longer than 18 decimals.
RawAmounts == StringsOver({"0", "1", "5"}, MaxRawLen) \cup {OneEther, OneAndAHalfEther}

FormatInit ==
  /\ call \in { <<[value |-> v, decimals |-> d, returned |-> FALSE, result |-> <<>>]>>
                 : v \in RawAmounts, d \in 0..MaxDecimals }
  /\ world = "none"
  /\ apiKey = TRUE
  /\ body = MalformedBody
  /\ pc = "format"
  /\ start = <<>>
  /\ tokenNorm = <<>>
  /\ direction = ""
  /\ maxHops = 0
  /\ perAddressLimit = 0
  /\ nodes = EmptyMap
  /\ edges = <<>>
  /\ transfers = <<>>
  /\ frontier = <<>>
  /\ visited = {}
  /\ classifyQueue = <<>>
  /\ hop = 0
  /\ nextFrontier = <<>>
  /\ cursor = 0
  /\ list = <<>>
  /\ pending = {}
  /\ response = <<>>
  /\ budget = 0
  /\ queries = <<>>
  /\ lookups = <<>>
  /\ replies = EmptyMap
  /\ overflow = {}
  /\ observed = {}
  /\ hopLog = <<>>
  /\ other = <<>>

\* Lines 205 and 266: formatAmount(t.value, dec).
Format ==
  /\ pc = "format"
  /\ call # <<>>
  /\ ~call[1].returned
  /\ call' = <<[call[1] EXCEPT !.returned = TRUE,
                               !.result = formatAmount(call[1].value, call[1].decimals)]>>
  /\ pc' = "formatted"
  /\ UNCHANGED <<world, body, apiKey, other, params, graph, frontier, visited,
                 classifyQueue, hop, nextFrontier, cursor, list, pending,
                 response, budget, history>>

FormatNext == Format

FormatSpec == FormatInit /\ [][FormatNext]_vars


(***************************************************************************)
(* Properties.                                                             *)
(***************************************************************************)
Done == pc = "done"
Succeeded == pc = "done" /\ response[1].ok
\* The item a Merge step is about to process, and its normalized ends.
cur == Head(list)
curFrom == normAddr(cur.from)
curTo == normAddr(cur.to)
curKey == EdgeKey(cur, curFrom, curTo)

\* C1: while the start address is queried, every transfer of the response
\* that touches it is appended to the start-address report, with its derived
\* direction, whatever the direction policy.
C1_ReportUnfiltered ==
  [][(pc = "merge" /\ addr = start /\ (curFrom = start \/ curTo = start))
       => /\ Len(transfers') = Len(transfers) + 1
          /\ transfers'[Len(transfers')].item = cur
          /\ transfers'[Len(transfers')].direction =
               (IF curFrom = start THEN "out" ELSE "in")]_vars

\* A tokentx call that failed: it threw, or its status is not "1" for another
\* reason than "No transactions found".
QueryFailed(q) ==
  q.kind = "throw" \/ (q.status # "1" /\ q.message # "No transactions found")

\* C2: when the query of one address of a frontier of two or more fails, every
\* address of that frontier is still queried in that hop and the trace
\* returns a success result.
C2_QueryFailureIsolated ==
  Done =>
    \A i \in 1..Len(queries) :
      (QueryFailed(queries[i]) /\ Len(hopLog[queries[i].hop + 1].frontier) >= 2)
        => /\ response[1].ok
           /\ \A a \in Range(hopLog[queries[i].hop + 1].frontier) :
                \E j \in 1..Len(queries) :
                  queries[j].address = a /\ queries[j].hop = queries[i].hop

\* An eth_getCode call that failed: it threw, or the provider answered with a
\* non-success status and an error text.
LookupFailed(r) == r.kind = "throw" \/ r.status = "0"

\* C3: a node whose lookup failed keeps its kind (`unknown', or the `wallet'
\* default of the start node), the other queued addresses are classified, and
\* the trace returns success.
C3_LookupFailureIsolated ==
  (Done /\ lookups # <<>>) =>
    /\ response[1].ok
    /\ \A a \in DOMAIN replies :
         IF LookupFailed(replies[a])
           THEN response[1].graph.nodes[a].kind =
                  (IF a = start THEN "wallet" ELSE "unknown")
           ELSE response[1].graph.nodes[a].kind \in {"wallet", "contract"}

NoProviderCall == queries = <<>> /\ lookups = <<>>
ValidationFailure == Done /\ ~response[1].ok /\ response[1].status = 400

\* C4 as stated: a wallet or token that is not `0x' and 40 hex characters ends
\* the trace in a validation failure, with no provider call.
C4_InvalidAddressRejected ==
  (body.parsed /\ (~isEthAddress(OrEmpty(body.wallet))
                     \/ ~isEthAddress(OrEmpty(body.token))))
    => NoProviderCall /\ (Done => ValidationFailure)

\* C4, amended: a wallet or token that, with surrounding whitespace removed, is
\* not `0x' and 40 hex characters ends the trace in a validation failure, with
\* no provider call.
C4_InvalidTrimmedAddressRejected ==
  (body.parsed /\ (~isEthAddress(trim(OrEmpty(body.wallet)))
                     \/ ~isEthAddress(trim(OrEmpty(body.token)))))
    => NoProviderCall /\ pc \in {"request", "done"} /\ (Done => ValidationFailure)

\* The wallet is valid, the token is not, and the trace was rejected.
C4_Witness ==
  /\ ValidationFailure
  /\ isEthAddress(trim(OrEmpty(body.wallet)))
  /\ ~isEthAddress(trim(OrEmpty(body.token)))
  /\ NoProviderCall

\* C5: the hop loop runs at most maxHops iterations, begins no hop with an
\* empty frontier, and the trace eventually returns.
C5_Terminates ==
  /\ [](/\ Len(hopLog) <= maxHops
        /\ \A i \in 1..Len(hopLog) : hopLog[i].frontier # <<>>
        /\ pc = "classify" => frontier = <<>> \/ Len(hopLog) = maxHops)
  /\ <>Done

\* A traversal over a cycle (start -> B -> start) that the hop limit cut
\* short: the frontier is not empty when the trace returns.
C5_Witness ==
  /\ Succeeded
  /\ Len(hopLog) = maxHops
  /\ frontier # <<>>
  /\ \E i, j \in 1..Len(edges) :
       /\ edges[i].source = start /\ edges[i].target # start
       /\ edges[j].source = edges[i].target /\ edges[j].target = start

\* C6: no address of the next frontier was visited before the hop began; the
\* frontiers of different hops are disjoint; the start address is in the
\* first frontier only.
C6_FrontierFresh ==
  /\ hopLog # <<>> => Range(nextFrontier) \cap hopLog[Len(hopLog)].visited = {}
  /\ \A i, j \in 1..Len(hopLog) :
       i < j => Range(hopLog[i].frontier) \cap Range(hopLog[j].frontier) = {}
  /\ \A j \in 2..Len(hopLog) : start \notin Range(hopLog[j].frontier)

\* In a later hop, a transfer back to the start address is being merged under
\* a policy that follows it.
C6_Witness ==
  /\ pc = "merge"
  /\ hop >= 1
  /\ direction # "upstream"
  /\ curFrom = addr
  /\ curTo = start

\* C7: the classify queue never holds more than MAX_CLASSIFY entries, and no
\* more than MAX_CLASSIFY isContract calls are issued.
C7_QueueBounded ==
  /\ Len(classifyQueue) <= MAX_CLASSIFY
  /\ Len(lookups) <= MAX_CLASSIFY

\* The queue is full, addresses were left out of it, and the calls are issued.
C7_Witness ==
  /\ Len(classifyQueue) = MAX_CLASSIFY
  /\ overflow # {}
  /\ Len(lookups) = MAX_CLASSIFY

\* C8: an address first seen when the classify queue was full is never passed
\* to isContract and has kind `unknown', in the node map and in the result.
C8_OverflowUnclassified ==
  \A a \in overflow :
    /\ a \notin Range(lookups)
    /\ a \in DOMAIN nodes
    /\ nodes[a].kind = "unknown"
    /\ Succeeded => response[1].graph.nodes[a].kind = "unknown"

\* A success result with an address that was left out of the full queue.
C8_Witness ==
  /\ Succeeded
  /\ overflow # {}
  /\ Cardinality(DOMAIN response[1].graph.nodes) > MAX_CLASSIFY

\* C9: the edge collection holds exactly one edge for each key (hash,
\* txIndex, from, to, value) of the included transfers observed so far, and an
\* edge, once inserted, is never changed, moved or removed.
C9_EdgesDeduplicated ==
  /\ [](/\ \A i, j \in 1..Len(edges) : edges[i].id = edges[j].id => i = j
        /\ Len(edges) = Cardinality(observed)
        /\ \A k \in observed :
             \E i \in 1..Len(edges) :
               /\ edges[i].txHash = k[1]
               /\ edges[i].source = k[3]
               /\ edges[i].target = k[4])
  /\ [][/\ Len(edges') >= Len(edges)
        /\ SubSeq(edges', 1, Len(edges)) = edges
        /\ (pc = "merge" /\ ~Malformed(cur)
              /\ Include(direction, curFrom = addr, curTo = addr))
             => /\ HasEdge(edges', curKey)
                /\ Len(edges') = Len(edges) + (IF HasEdge(edges, curKey) THEN 0 ELSE 1)]_vars

\* An included transfer is being merged whose key is already present, with
\* another timestamp and another label.
C9_Witness ==
  /\ pc = "merge"
  /\ Include(direction, curFrom = addr, curTo = addr)
  /\ \E i \in 1..Len(edges) :
       /\ edges[i].id = curKey
       /\ edges[i].timeStamp # ToNumber(OrEmpty(cur.timeStamp))
       /\ edges[i].label # EdgeLabel(cur)

\* C10: a transfer from the queried address A to another address B is, under
\* downstream, included and B joins the next frontier unless visited; under
\* upstream skipped with no effect; under both included, and B alone may join
\* the next frontier.
C10_DirectionPolicy ==
  [][(pc = "merge" /\ curFrom = addr /\ curTo # addr)
       => /\ direction \in {"downstream", "both"}
               => /\ HasEdge(edges', curKey)
                  /\ {curFrom, curTo} \subseteq DOMAIN nodes'
                  /\ Range(nextFrontier') =
                       Range(nextFrontier)
                         \cup (IF curTo \in visited THEN {} ELSE {curTo})
                  /\ visited' = visited \cup {curTo}
                  /\ addr \notin Range(nextFrontier')
          /\ direction = "upstream"
               => UNCHANGED <<nodes, edges, classifyQueue, visited, nextFrontier>>]_vars

\* Under upstream, an outgoing transfer of the queried address to an address
\* not seen before is being merged.
C10_Witness ==
  /\ pc = "merge"
  /\ direction = "upstream"
  /\ curFrom = addr
  /\ curTo # addr
  /\ curTo \notin DOMAIN nodes

\* C11: the source and the target of every edge are nodes, in every state of
\* the traversal and in the returned graph.
C11_NoDanglingEdge ==
  /\ \A i \in 1..Len(edges) : {edges[i].source, edges[i].target} \subseteq DOMAIN nodes
  /\ Succeeded =>
       \A i \in 1..Len(response[1].graph.edges) :
         {response[1].graph.edges[i].source, response[1].graph.edges[i].target}
           \subseteq DOMAIN response[1].graph.nodes

\* A returned graph with an edge between two addresses that are not the start
\* address: both nodes were created by the transfer that made the edge.
C11_Witness ==
  /\ Succeeded
  /\ \E i \in 1..Len(response[1].graph.edges) :
       /\ response[1].graph.edges[i].source # start
       /\ response[1].graph.edges[i].target # start

\* The provider answered query q with the items `items' and success status.
Returned(q, items) ==
  q.kind = "json" /\ q.status = "1" /\ q.isArray /\ q.result = items

\* The provider answered query q with `no transactions found'.
NoResults(q) == q.kind = "json" /\ q.status = "0" /\ q.result = <<>> /\ q.isArray

\* C12: wallet W, token T, downstream, one hop; the provider returns the one
\* transfer W -> B (2000000000000000000, 18 decimals, hash 0xaa) for W and no
\* results for any other query.  The trace succeeds with the nodes W and B, the
\* one edge W -> B, an edge count of 1 and one start transfer, directed `out'.
C12_EndToEnd ==
  (/\ Succeeded
   /\ start = W /\ tokenNorm = T /\ direction = "downstream" /\ maxHops = 1
   /\ queries # <<>>
   /\ queries[1].address = W /\ Returned(queries[1], <<OutB>>)
   /\ \A i \in 2..Len(queries) : NoResults(queries[i]))
    => /\ response[1].ok
       /\ DOMAIN response[1].graph.nodes = {W, B}
       /\ Len(response[1].graph.edges) = 1
       /\ response[1].graph.edges[1].source = W
       /\ response[1].graph.edges[1].target = B
       /\ response[1].summary.edges = 1
       /\ Len(response[1].startTransfers) = 1
       /\ response[1].startTransfers[1].direction = "out"

\* The scenario has run to its result.
C12_Witness ==
  /\ Succeeded
  /\ start = W /\ tokenNorm = T /\ direction = "downstream" /\ maxHops = 1
  /\ Len(queries) = 1
  /\ queries[1].address = W /\ Returned(queries[1], <<OutB>>)
  /\ response[1].summary.nodes = 2
  /\ response[1].graph.edges[1].label = <<"2">>
  /\ response[1].startTransfers[1].amountFormatted = <<"2">>

\* The queries of hop h, in the order issued.
HopQueries(h) == SelectSeq(queries, LAMBDA q : q.hop = h)

\* The addresses the answer to query q leads to under the direction policy.
Follow(q) ==
  IF q.kind = "json" /\ q.status = "1" /\ q.isArray
    THEN { normAddr(q.result[i].to) :
             i \in { j \in 1..Len(q.result) :
                       /\ direction \in {"downstream", "both"}
                       /\ normAddr(q.result[j].from) = q.address } }
         \cup
         { normAddr(q.result[i].from) :
             i \in { j \in 1..Len(q.result) :
                       /\ direction \in {"upstream", "both"}
                       /\ normAddr(q.result[j].to) = q.address } }
    ELSE {}

\* Hop h has run to its end: a later hop has begun, or the loop was left
\* other than by an exception.
HopComplete(h) ==
  \/ h + 1 < Len(hopLog)
  \/ pc \in {"hop", "classify", "lookups"}
  \/ Succeeded

\* The frontier that followed hop h.
FrontierAfter(h) == IF h + 2 <= Len(hopLog) THEN hopLog[h + 2].frontier ELSE frontier

\* C13: queries are issued hop by hop, each only when the results of the one
\* before are merged; the queries of a hop are the addresses of its frontier,
\* in order; a hop that has ended has queried its whole frontier, and the
\* frontier that follows it is what the answers of all its queries lead to,
\* less the addresses visited before it.
C13_HopBarrier ==
  /\ \A i, j \in 1..Len(queries) : i < j => queries[i].hop <= queries[j].hop
  /\ pc \in {"hop", "query"} => list = <<>>
  /\ \A n \in 1..Len(hopLog) :
       LET h == n - 1
           asked == HopQueries(h)
       IN  /\ Len(asked) <= Len(hopLog[n].frontier)
           /\ \A k \in 1..Len(asked) : asked[k].address = hopLog[n].frontier[k]
           /\ HopComplete(h) =>
                /\ Len(asked) = Len(hopLog[n].frontier)
                /\ Range(FrontierAfter(h)) =
                     UNION { Follow(asked[k]) : k \in 1..Len(asked) }
                       \ hopLog[n].visited

\* A second hop over a frontier of several addresses has ended, every one of
\* them queried, and left a frontier.
C13_Witness ==
  /\ Succeeded
  /\ Len(hopLog) = 2
  /\ Len(hopLog[2].frontier) > 2
  /\ Len(HopQueries(1)) = Len(hopLog[2].frontier)
  /\ frontier # <<>>

\* How far an invocation in state l has come.
Progress(l) ==
  <<l.pc, l.hop, l.cursor, Len(l.list), Len(l.queries), Len(l.lookups),
    Cardinality(l.pending)>>

\* C14: of two invocations that run interleaved, a step of one leaves the
\* whole state of the other as it was, an invocation resumes in exactly the
\* state it was suspended in, and two invocations of the same request that
\* have come equally far are in the same state, so return the same result.
C14_Isolated ==
  /\ [](other # <<>> =>
          /\ (other[1].body = body /\ Progress(other[1]) = Progress(Locals))
               => other[1] = Locals
          /\ (other[1].body = body /\ Done /\ other[1].pc = "done")
               => other[1].response = response)
  /\ [][other # <<>> =>
          \/ other' = other /\ body' = body
          \/ other' = <<Locals>> /\ Locals' = other[1]]_vars

\* Two invocations for the same wallet are both under way: one awaits its
\* classification lookups, the other a query of its second hop.
C14_Witness ==
  /\ other # <<>>
  /\ pc = "lookups"
  /\ pending # {}
  /\ other[1].pc = "query"
  /\ other[1].hop = 1
  /\ other[1].start = start
  /\ other[1].edges # <<>>

\* C15: in a success result the start node is present, with the origin label
\* and a kind that is `wallet' or `contract', and `wallet' when its lookup
\* failed.
C15_StartNodePolished ==
  Succeeded =>
    /\ start \in DOMAIN response[1].graph.nodes
    /\ response[1].graph.nodes[start].kind \in {"wallet", "contract"}
    /\ response[1].graph.nodes[start].label = OriginLabel(start)
    /\ (start \notin DOMAIN replies \/ LookupFailed(replies[start]))
         => response[1].graph.nodes[start].kind = "wallet"

\* C16: when the first query, that of the start address, brings no transfers
\* (no results, a non-success status, or no list), no other query is issued
\* and the trace returns success with the start node alone, no edge and no
\* start transfer.
C16_EmptyFirstQuery ==
  (/\ queries # <<>>
   /\ queries[1].kind = "json"
   /\ queries[1].status # "1" \/ queries[1].result = <<>>)
    => /\ Len(queries) = 1
       /\ Done =>
            /\ response[1].ok
            /\ DOMAIN response[1].graph.nodes = {start}
            /\ response[1].graph.edges = <<>>
            /\ response[1].startTransfers = <<>>
            /\ response[1].summary = [nodes |-> 1, edges |-> 0, startTransfers |-> 0]

\* A trace of three hops at most whose first query met a non-success status
\* has returned.
C16_Witness ==
  /\ Done
  /\ maxHops = 3
  /\ Len(queries) = 1
  /\ queries[1].status = "0"
  /\ queries[1].message = "NOTOK"
  /\ response[1].ok

\* The timestamp the report is sorted by.
StampOf(entry) == ToNumber(entry.item.timeStamp)

\* Sequences a and b hold the same entries, each as often.
SameEntries(a, b) ==
  /\ Len(a) = Len(b)
  /\ \A x \in Range(a) \cup Range(b) :
       Cardinality({ i \in 1..Len(a) : a[i] = x })
         = Cardinality({ i \in 1..Len(b) : b[i] = x })

\* C17: the returned startTransfers are recorded start transfers, at most 100
\* of them, by non-increasing timestamp, and none of the recorded ones left
\* out is more recent than one returned.
C17_ReportSortedCapped ==
  /\ [](Succeeded =>
          /\ Len(response[1].startTransfers) = Min(100, Len(transfers))
          /\ \A i, j \in 1..Len(response[1].startTransfers) :
               i < j => StampOf(response[1].startTransfers[i])
                          >= StampOf(response[1].startTransfers[j])
          /\ \A i \in 1..Len(response[1].startTransfers) :
               /\ transfers[i] = response[1].startTransfers[i]
               /\ \A k \in (Len(response[1].startTransfers) + 1)..Len(transfers) :
                    StampOf(transfers[i]) >= StampOf(transfers[k]))
  /\ [][(pc = "lookups" /\ pc' = "done") => SameEntries(transfers', transfers)]_vars

\* More than 100 start transfers were recorded, not in the order of their
\* timestamps, and 100 are returned.
C17_Witness ==
  /\ Succeeded
  /\ response[1].summary.startTransfers > 100
  /\ Len(response[1].startTransfers) = 100
  /\ \E i \in 1..Len(queries[1].result) - 1 :
       ToNumber(queries[1].result[i].timeStamp)
         < ToNumber(queries[1].result[i + 1].timeStamp)

\* The place of edge e in the edge collection, which is in insertion order.
InsertedAt(e) == CHOOSE k \in 1..Len(edges) : edges[k].id = e.id

\* C18: the returned edges are the edges of the collection, by non-increasing
\* timestamp, those of equal timestamp in the order they were inserted.
C18_EdgesSortedStable ==
  Succeeded =>
    /\ Len(response[1].graph.edges) = Len(edges)
    /\ \A i \in 1..Len(edges) : response[1].graph.edges[i] \in Range(edges)
    /\ \A i, j \in 1..Len(edges) :
         i < j =>
           \/ response[1].graph.edges[i].timeStamp > response[1].graph.edges[j].timeStamp
           \/ /\ response[1].graph.edges[i].timeStamp = response[1].graph.edges[j].timeStamp
              /\ InsertedAt(response[1].graph.edges[i])
                   < InsertedAt(response[1].graph.edges[j])

\* Edges of equal timestamp are returned, and the edges were not inserted in
\* the order of their timestamps.
C18_Witness ==
  /\ Succeeded
  /\ \E i, j \in 1..Len(edges) :
       i < j /\ edges[i].timeStamp = edges[j].timeStamp
  /\ \E i \in 1..(Len(edges) - 1) : edges[i].timeStamp < edges[i + 1].timeStamp

\* C19: once the traversal has begun, direction is upstream, downstream or
\* both (downstream when absent), maxHops is in 1..4 (2 when absent) and
\* perAddressLimit is in 10..200 (50 when absent).
C19_ParametersNormalised ==
  hopLog # <<>> =>
    /\ direction \in {"upstream", "downstream", "both"}
    /\ body.direction = "" => direction = "downstream"
    /\ maxHops \in 1..4
    /\ body.maxHops = NoNum => maxHops = 2
    /\ perAddressLimit \in 10..200
    /\ body.perAddressLimit = NoNum => perAddressLimit = 50

\* What the handler does on a `no transactions' answer: it moves on to the
\* next address and nothing else.
SkippedAsEmpty ==
  /\ pc' = pc
  /\ cursor' = cursor + 1
  /\ UNCHANGED <<list, response, graph, visited, classifyQueue, nextFrontier>>

\* C20: a query answered `no transactions found' does not raise, and one
\* answered with a failure (a throw, another non-success status, a result that
\* is no list) has an outcome other than that of `no transactions found'.
C20_FailureDistinguishable ==
  [][(pc = "query" /\ Len(queries') = Len(queries) + 1) =>
       /\ (/\ NoResults(queries'[Len(queries')])
           /\ queries'[Len(queries')].message = "No transactions found")
            => SkippedAsEmpty
       /\ (\/ QueryFailed(queries'[Len(queries')])
           \/ ~queries'[Len(queries')].isArray)
            => ~SkippedAsEmpty]_vars

\* C21: a trace that has ended has exactly one response, which is a success,
\* a validation failure (400) or a generic failure (500); a trace that has not
\* ended has none; and a trace in which something threw (the body did not
\* parse, a tokentx call was rejected, an item of a response was malformed)
\* ended in the generic failure.
C21_ThreeOutcomes ==
  /\ ~Done => response = <<>>
  /\ Done =>
       /\ Len(response) = 1
       /\ \/ response[1].ok /\ response[1].status = 200
          \/ ~response[1].ok /\ response[1].status \in {400, 500}
       /\ (\/ ~body.parsed
           \/ queries # <<>> /\ queries[Len(queries)].kind = "throw"
           \/ pc = "done" /\ list # <<>> /\ Malformed(Head(list)))
            => ~response[1].ok /\ response[1].status = 500
       /\ response[1].status = 400
            <=> (body.parsed /\ (~isEthAddress(trim(OrEmpty(body.wallet)))
                                   \/ ~isEthAddress(trim(OrEmpty(body.token)))))

\* A trace ended in the generic failure on a malformed item, after edges were
\* collected.
C21_Witness ==
  /\ Done
  /\ list # <<>>
  /\ Malformed(Head(list))
  /\ edges # <<>>
  /\ response[1].status = 500

\* Where the decimal point of r stands (0 when r has none).
PointAt(r) == IF "." \in Range(r) THEN CHOOSE i \in 1..Len(r) : r[i] = "." ELSE 0
WholePart(r) == IF PointAt(r) = 0 THEN r ELSE SubSeq(r, 1, PointAt(r) - 1)
FracPart(r) == IF PointAt(r) = 0 THEN <<>> ELSE SubSeq(r, PointAt(r) + 1, Len(r))

IsDigits(r) == \A i \in 1..Len(r) : r[i] \in Range(Digits)

\* The digit strings a and b spell the same number: they agree once the
\* shorter is zero-filled on the left.
SameNumber(a, b) ==
  LET n == Max(Len(a), Len(b))
  IN  Zeros(n - Len(a)) \o a = Zeros(n - Len(b)) \o b

\* r is the exact decimal representation of raw / 10^d: whole * 10^d + frac
\* (read as d fractional digits) is raw, the whole part has no leading zero
\* other than a single 0, the fraction has no trailing zero, and there is a
\* point exactly when there is a fraction.
ExactDecimal(r, raw, d) ==
  /\ IsDigits(WholePart(r))
  /\ IsDigits(FracPart(r))
  /\ WholePart(r) # <<>>
  /\ Len(WholePart(r)) > 1 => WholePart(r)[1] # "0"
  /\ PointAt(r) # 0 => FracPart(r) # <<>>
  /\ FracPart(r) # <<>> => FracPart(r)[Len(FracPart(r))] # "0"
  /\ Len(FracPart(r)) <= d
  /\ SameNumber(raw, WholePart(r) \o FracPart(r) \o Zeros(d - Len(FracPart(r))))

\* C22: for every raw digit string and every decimals in 0..36 the result of
\* formatAmount is the exact decimal representation of raw / 10^decimals,
\* without leading zeros in the whole part, trailing zeros in the fraction or
\* a point before an empty fraction; and the six examples give "1", "1.5",
\* "1", "0.01", "5" and "0".
C22_FormatExact ==
  (call # <<>> /\ call[1].returned) =>
    \E c \in {call[1]} :
      /\ ExactDecimal(c.result, c.value, c.decimals)
      /\ (c.value = OneEther /\ c.decimals = 18) => c.result = <<"1">>
      /\ (c.value = OneAndAHalfEther /\ c.decimals = 18) => c.result = <<"1", ".", "5">>
      /\ (c.value = <<"1", "0", "0">> /\ c.decimals = 2) => c.result = <<"1">>
      /\ (c.value = <<"1">> /\ c.decimals = 2) => c.result = <<"0", ".", "0", "1">>
      /\ (c.value = <<"5">> /\ c.decimals = 0) => c.result = <<"5">>
      /\ (c.value = <<"0">> /\ c.decimals = 0) => c.result = <<"0">>

\* formatAmount returned for an amount with fewer digits than decimals, with a
\* leading and a trailing zero to strip.
C22_Witness ==
  /\ call # <<>>
  /\ call[1].returned
  /\ call[1].value = <<"0", "5", "0">>
  /\ call[1].decimals = 4
  /\ call[1].result = <<"0", ".", "0", "0", "5">>

\* C23: until the classification pass begins every node has kind `unknown';
\* a step that changes a node's kind changes it from `unknown' to `wallet' or
\* `contract', and is either the completion of that node's own lookup or, for
\* the start node, the final default to `wallet'; so no kind changes twice or
\* returns to `unknown'.
C23_KindSetOnce ==
  /\ [](pc \in {"request", "hop", "query", "merge", "classify"}
         => \A a \in DOMAIN nodes : nodes[a].kind = "unknown")
  /\ [][/\ DOMAIN nodes \subseteq DOMAIN nodes'
        /\ \A a \in DOMAIN nodes :
             nodes'[a].kind # nodes[a].kind
               => /\ nodes[a].kind = "unknown"
                  /\ nodes'[a].kind \in {"wallet", "contract"}
                  /\ pc = "lookups"
                  /\ \/ a \in pending /\ pending' = pending \ {a}
                     \/ a = start /\ pending = {} /\ pc' = "done"
                          /\ nodes'[a].kind = "wallet"]_vars

\* A trace ended with the start node classified `contract' by its lookup, a
\* second node classified `wallet' and a third left `unknown'.
C23_Witness ==
  /\ Succeeded
  /\ nodes[start].kind = "contract"
  /\ \E a, b \in DOMAIN nodes : nodes[a].kind = "wallet" /\ nodes[b].kind = "unknown"

\* C24: merging a transfer of the queried address to itself, under upstream,
\* downstream or both, leaves exactly one edge with the transfer's key, from
\* the address to itself (one more edge than before unless the key was
\* present), and leaves `visited' and the next frontier as they were.
C24_SelfTransfer ==
  [][(/\ pc = "merge"
      /\ ~Malformed(cur)
      /\ curFrom = addr
      /\ curTo = addr
      /\ direction \in {"upstream", "downstream", "both"})
       => /\ Cardinality({ i \in 1..Len(edges') :
                             /\ edges'[i].id = curKey
                             /\ edges'[i].source = addr
                             /\ edges'[i].target = addr }) = 1
          /\ Len(edges') = Len(edges) + (IF HasEdge(edges, curKey) THEN 0 ELSE 1)
          /\ visited' = visited
          /\ nextFrontier' = nextFrontier
          /\ addr \in visited
          /\ addr \notin Range(nextFrontier)]_vars

\* An upstream trace has merged a transfer of the start address to itself and
\* gone on to query another address.
C24_Witness ==
  /\ direction = "upstream"
  /\ \E i \in 1..Len(edges) : edges[i].source = start /\ edges[i].target = start
  /\ Len(queries) > 1
  /\ \A i \in 2..Len(queries) : queries[i].address # start

\* The string has no upper-case letter.
IsLowerCase(x) == \A i \in 1..Len(x) : x[i] \notin {"A", "B", "C", "D", "E", "F", "X"}

\* C25: every node id, edge source and target, `visited' entry, frontier and
\* next-frontier entry and classify-queue entry is lower-case, whatever the
\* case of the wallet in the request and of from/to in the responses; and no
\* two nodes have ids that differ only in case.
C25_AddressesNormalized ==
  /\ IsLowerCase(start)
  /\ \A a \in DOMAIN nodes : IsLowerCase(a) /\ nodes[a].id = a
  /\ \A i \in 1..Len(edges) : IsLowerCase(edges[i].source) /\ IsLowerCase(edges[i].target)
  /\ \A a \in visited : IsLowerCase(a)
  /\ \A a \in Range(frontier) \cup Range(nextFrontier) \cup Range(classifyQueue) :
       IsLowerCase(a)
  /\ Cardinality({ toLowerCase(a) : a \in DOMAIN nodes }) = Cardinality(DOMAIN nodes)
  /\ Succeeded =>
       /\ IsLowerCase(response[1].wallet)
       /\ \A a \in DOMAIN response[1].graph.nodes : IsLowerCase(a)

\* A trace ended in which one response spelled the start address both in lower
\* and in upper case, and the graph has the one node for it and one for the
\* counterparty.
C25_Witness ==
  /\ Succeeded
  /\ \E q \in Range(queries) :
       \E i, j \in 1..Len(q.result) :
         /\ q.result[i].from = start
         /\ q.result[j].from # start
         /\ toLowerCase(q.result[j].from) = start
  /\ Cardinality(DOMAIN nodes) = 2
  /\ Len(edges) = 1

\* C26: no two tokentx calls of a trace have the same address; the start
\* address is queried in hop 0 only; and every call is for an address of the
\* frontier of its hop, which is in the frontier of no other hop.
C26_OneQueryPerAddress ==
  /\ \A i, j \in 1..Len(queries) : queries[i].address = queries[j].address => i = j
  /\ \A i \in 1..Len(queries) :
       /\ queries[i].address = start => queries[i].hop = 0
       /\ queries[i].hop + 1 <= Len(hopLog)
       /\ \A k \in 1..Len(hopLog) :
            queries[i].address \in Range(hopLog[k].frontier) <=> k = queries[i].hop + 1

\* A trace of three hops has ended in which a response of a later hop listed a
\* transfer back to the start address, which was followed.
C26_Witness ==
  /\ Succeeded
  /\ Len(hopLog) >= 3
  /\ direction \in {"downstream", "both"}
  /\ \E i \in 2..Len(queries) :
       \E k \in 1..Len(queries[i].result) :
         /\ toLowerCase(queries[i].result[k].to) = start
         /\ toLowerCase(queries[i].result[k].from) = queries[i].address

\* The addresses of the frontiers of the hops begun so far.
PastFrontiers == UNION { Range(hopLog[k].frontier) : k \in 1..Len(hopLog) }

\* C27: at every hop boundary (a hop is about to begin, or the loop has just
\* ended) the frontier is within `visited', `visited' is within the node ids,
\* and `visited' is the start address together with every frontier computed
\* so far; and every address queried is a node when it is queried.
C27_FrontierVisitedNodes ==
  /\ pc \in {"hop", "classify"} =>
       /\ Range(frontier) \subseteq visited
       /\ visited \subseteq DOMAIN nodes
       /\ visited = {start} \cup PastFrontiers \cup Range(frontier)
  /\ (pc = "query" /\ cursor <= Len(frontier)) => addr \in DOMAIN nodes
  /\ pc \in {"query", "merge"} =>
       /\ Range(frontier) \cup Range(nextFrontier) \subseteq visited
       /\ visited \subseteq DOMAIN nodes
       /\ visited = {start} \cup PastFrontiers \cup Range(nextFrontier)

\* The third hop is about to begin with a frontier, three or more addresses
\* visited.
C27_Witness ==
  /\ pc = "hop"
  /\ hop >= 2
  /\ hop < maxHops
  /\ frontier # <<>>
  /\ Cardinality(visited) >= 3
  /\ Range(frontier) # visited

\* The places where the responses name an address of an included transfer:
\* <<query, item, end>>, end 1 for `from' and 2 for `to'.
Mentions ==
  UNION { IF queries[i].kind = "json" /\ queries[i].status = "1" /\ queries[i].isArray
            THEN { <<i, k, e>> :
                     k \in { k \in 1..Len(queries[i].result) :
                              \/ direction = "both"
                              \/ direction = "downstream"
                                   /\ toLowerCase(queries[i].result[k].from)
                                        = queries[i].address
                              \/ direction = "upstream"
                                   /\ toLowerCase(queries[i].result[k].to)
                                        = queries[i].address },
                     e \in {1, 2} }
            ELSE {}
          : i \in 1..Len(queries) }

MentionedAt(m) ==
  toLowerCase(IF m[3] = 1 THEN queries[m[1]].result[m[2]].from
                          ELSE queries[m[1]].result[m[2]].to)

\* Mention m comes before mention n in the order the handler reads them.
Earlier(m, n) ==
  \/ m[1] < n[1]
  \/ m[1] = n[1] /\ m[2] < n[2]
  \/ m[1] = n[1] /\ m[2] = n[2] /\ m[3] < n[3]

\* The first mentions of the addresses other than the start address.
Discoveries ==
  The({ The({ { m \in DOMAIN at :
                  /\ at[m] # start
                  /\ \A n \in DOMAIN at : at[n] = at[m] => ~Earlier(n, m) }
                : at \in {[m \in ms |-> MentionedAt(m)]} })
          : ms \in {Mentions} })

\* C28: the classify queue has no duplicate and begins with the start address;
\* when the traversal is over it is the start address followed by the first
\* MAX_CLASSIFY - 1 other addresses in the order the responses first named
\* them, and exactly the queue is submitted to isContract, in its order.
C28_QueueInDiscoveryOrder ==
  /\ \A i, j \in 1..Len(classifyQueue) : classifyQueue[i] = classifyQueue[j] => i = j
  /\ pc \in {"hop", "query", "merge", "classify", "lookups"} \/ Succeeded
       => classifyQueue # <<>> /\ classifyQueue[1] = start
  /\ pc \in {"classify", "lookups"} \/ Succeeded =>
       \E ds \in {Discoveries} :
         /\ Len(classifyQueue) = 1 + Min(MAX_CLASSIFY - 1, Cardinality(ds))
         /\ \A d \in ds :
              \E r \in {Cardinality({ n \in ds : Earlier(n, d) })} :
                r < MAX_CLASSIFY - 1 => classifyQueue[r + 2] = MentionedAt(d)
  /\ pc = "lookups" \/ Succeeded =>
       /\ lookups = classifyQueue
       /\ lookups[1] = start
       /\ Cardinality(Range(lookups) \ {start}) <= MAX_CLASSIFY - 1

\* A trace ended that discovered more than MAX_CLASSIFY - 1 addresses: the
\* start address and the first MAX_CLASSIFY - 1 of them were looked up.
C28_Witness ==
  /\ Succeeded
  /\ Cardinality(Discoveries) > MAX_CLASSIFY - 1
  /\ Len(lookups) = MAX_CLASSIFY
  /\ lookups[1] = start
  /\ lookups[MAX_CLASSIFY] = FanAddr(MAX_CLASSIFY - 1)

\* The transfers the provider of the ledger and of the chain world holds.
Universe == IF world = "chain" THEN Chain ELSE Ledger

\* The end of a transfer the trace comes from, and the end it goes on to:
\* from and to under downstream, to and from under upstream.
NearEnd(t) == toLowerCase(IF direction = "upstream" THEN t.to ELSE t.from)
FarEnd(t) == toLowerCase(IF direction = "upstream" THEN t.from ELSE t.to)

\* The addresses reachable from the start address along at most n transfers.
RECURSIVE Reach(_)
Reach(n) ==
  IF n = 0 THEN {start}
  ELSE LET near == Reach(n - 1)
       IN  near \cup { FarEnd(Universe[i]) :
                         i \in { j \in 1..Len(Universe) : NearEnd(Universe[j]) \in near } }

\* Every query succeeded and its response lists exactly the transfers that
\* touch the queried address.
ExactResponses ==
  /\ world \in {"chain", "ledger"}
  /\ \A i \in 1..Len(queries) :
       \E found \in {Touching(Universe, queries[i].address)} :
         /\ queries[i].kind = "json"
         /\ found # <<>> => /\ queries[i].status = "1"
                            /\ queries[i].isArray
                            /\ queries[i].result = found
         /\ found = <<>> => queries[i].result = <<>>

\* C29: under downstream (upstream), when every query succeeded and each
\* response listed exactly the transfers touching the queried address, the
\* nodes returned are the addresses reachable from the start address along at
\* most maxHops transfers from -> to (to -> from), and the edges returned are,
\* once each, the transfers whose `from' (`to') is reachable within
\* maxHops - 1 transfers.
C29_BfsReachability ==
  (Succeeded /\ direction \in {"downstream", "upstream"} /\ ExactResponses) =>
    \E followed \in {{ i \in 1..Len(Universe) :
                          NearEnd(Universe[i]) \in Reach(maxHops - 1) }} :
      \E keys \in {{ EdgeKey(Universe[i], toLowerCase(Universe[i].from),
                               toLowerCase(Universe[i].to)) : i \in followed }} :
        /\ DOMAIN response[1].graph.nodes = Reach(maxHops)
        /\ { response[1].graph.edges[i].id : i \in 1..Len(response[1].graph.edges) }
             = keys
        /\ Len(response[1].graph.edges) = Cardinality(keys)
        /\ response[1].summary.nodes = Cardinality(Reach(maxHops))
        /\ \A i \in followed :
             \E k \in 1..Len(response[1].graph.edges) :
               /\ response[1].graph.edges[k].source = toLowerCase(Universe[i].from)
               /\ response[1].graph.edges[k].target = toLowerCase(Universe[i].to)
               /\ response[1].graph.edges[k].txHash = Universe[i].hash

\* A downstream trace of four hops over the chain has ended: the five
\* addresses are nodes, and the transfer from the fifth, four hops away, back
\* to the start address is no edge.
C29_Witness ==
  /\ Succeeded
  /\ ExactResponses
  /\ world = "chain"
  /\ direction = "downstream"
  /\ maxHops = 4
  /\ Len(queries) = 4
  /\ DOMAIN response[1].graph.nodes = {W, B, C, D, E}
  /\ Len(response[1].graph.edges) = 6
  /\ \A k \in 1..Len(response[1].graph.edges) : response[1].graph.edges[k].source # E

\* The kind the reply to the lookup of a node determines, whenever it came:
\* none recorded or a failed call leaves `unknown'.
KindByReply(a) ==
  IF a \notin DOMAIN replies \/ replies[a].kind = "throw" THEN "unknown"
  ELSE IF toLowerCase(OrEmpty(replies[a].result)) \in {<<"0", "x">>, <<"0", "x", "0">>}
    THEN "wallet"
  ELSE "contract"

\* C30: the completion of a lookup changes at most the kind of the node of
\* its own address and leaves that node's id and label and every other node
\* as they were; so while lookups are in flight each node's kind is the one
\* its own reply determines, and in the result it is that kind, with the
\* start node's `unknown' replaced by `wallet', in whatever order the
\* lookups completed.
C30_OrderIndependent ==
  /\ [](pc = "lookups" => \A a \in DOMAIN nodes : nodes[a].kind = KindByReply(a))
  /\ [](Succeeded =>
          \A a \in DOMAIN response[1].graph.nodes :
            response[1].graph.nodes[a].kind
              = IF a = start /\ KindByReply(a) = "unknown" THEN "wallet"
                ELSE KindByReply(a))
  /\ [][(pc = "lookups" /\ pending' # pending) =>
          \E a \in pending :
            /\ pending' = pending \ {a}
            /\ DOMAIN nodes' = DOMAIN nodes
            /\ \A b \in DOMAIN nodes \ {a} : nodes'[b] = nodes[b]
            /\ a \in DOMAIN nodes =>
                 /\ nodes'[a].id = nodes[a].id
                 /\ nodes'[a].label = nodes[a].label]_vars

\* Lookups have completed out of the order in which they were issued: the
\* first is in flight, the second found a contract and the third a wallet.
C30_Witness ==
  /\ pc = "lookups"
  /\ Len(lookups) >= 3
  /\ lookups[1] \in pending
  /\ lookups[2] \notin pending
  /\ lookups[3] \notin pending
  /\ nodes[lookups[2]].kind = "contract"
  /\ nodes[lookups[3]].kind = "wallet"

====
